---- MODULE Spec2Model ----
(***************************************************************************)
(* Model of app.py: the Gradio form, the click dispatch and the handler    *)
(* assess_patient_risk, which builds the patient record, calls the risk    *)
(* engine and the narrative collaborator and renders the output.           *)
(*                                                                         *)
(* Units.  Weight, height and the other measurements are integers, except  *)
(* HbA1c which is kept in tenths of a percent (3.0 is 30, 5.7 is 57).  The *)
(* body-mass index is the IEEE-754 double the code computes, in the three  *)
(* rounded steps of line 65 (height/100, its square, the division), held   *)
(* as sign, 53-bit significand and exponent.  The two divisions are        *)
(* correctly rounded.  The square is float ** 2, which is the C library's  *)
(* pow(x, 2.0): its last bit depends on the libm and on the processor      *)
(* variant it selects, so the square is either of the two doubles that     *)
(* enclose the exact square (the exact square itself when it is a double). *)
(* A risk percentage is kept in quarters of a percent (49 is               *)
(* 12.25 %), which are exactly representable floats, so that the rounding  *)
(* of the '.1f' format is modelled exactly.                                *)
(***************************************************************************)
EXTENDS Integers, Sequences, FiniteSets, TLC

\* ------------------------------------------------------------------ bounds
\* How many form components a submitted form may differ in from the
\* components' initial values.
MaxChanged == 1
\* How many distinct reports the engine may answer with.
MaxReportVariants == 2

\* Requests handled by the server (two, so that requests can overlap).
Requests == 1..2

\* The value of a variable that holds nothing yet (Python's None).
None == [none |-> TRUE]

Range(s) == {s[i] : i \in 1..Len(s)}

\* Python's None as the value of a numeric argument (a gr.Number whose field
\* was cleared hands None to the handler): an integer no field holds.
NoneNumber == -(2^30)
IsNone(v) == v = NoneNumber

\* An int too large for a float (10**400), as a plain call may pass.
HugeNumber == 2^30
IsHuge(v) == v = HugeNumber

\* -------------------------------------------------------------- the form
\* height_input = gr.Number(minimum=100, maximum=250, value=165, ...)
HeightInput ==
  [kind |-> "Number", minimum |-> 100, maximum |-> 250, value |-> 165]

\* A plausible slip: a choice added to the form that the data model lacks.
ExerciseChoicesExtra ==
  <<"Sedentary", "Light", "Moderate", "Active", "Very Active", "Athlete">>

\* The choices of exercise_input.
ExerciseChoices ==
  <<"Sedentary", "Light", "Moderate", "Active", "Very Active">>

\* The components of the Blocks context, by the variable that holds each.
Components ==
  [ age_input               |-> [kind |-> "Slider", minimum |-> 18,  maximum |-> 100, value |-> 45],
    gender_input            |-> [kind |-> "Radio", choices |-> <<"Female", "Male", "Other">>, value |-> "Female"],
    height_input            |-> HeightInput,
    weight_input            |-> [kind |-> "Number", minimum |-> 30,  maximum |-> 200, value |-> 70],
    smoking_input           |-> [kind |-> "Radio", choices |-> <<"Never", "Former", "Current">>, value |-> "Never"],
    alcohol_input           |-> [kind |-> "Radio", choices |-> <<"None", "Occasional", "Moderate", "Heavy">>, value |-> "None"],
    exercise_input          |-> [kind |-> "Radio", choices |-> ExerciseChoices, value |-> "Sedentary"],
    diet_input              |-> [kind |-> "Radio", choices |-> <<"Standard", "Mediterranean", "Plant-based", "Low-carb", "Other">>, value |-> "Standard"],
    diabetes_history_input  |-> [kind |-> "Checkbox", value |-> FALSE],
    depression_history_input |-> [kind |-> "Checkbox", value |-> FALSE],
    family_diabetes_input   |-> [kind |-> "Checkbox", value |-> FALSE],
    family_hypertension_input |-> [kind |-> "Checkbox", value |-> FALSE],
    family_cancer_input     |-> [kind |-> "Radio", choices |-> <<"None", "Breast", "Prostate", "Lung", "Colorectal", "Other">>, value |-> "None"],
    systolic_bp_input       |-> [kind |-> "Number", minimum |-> 70,  maximum |-> 200, value |-> 128],
    diastolic_bp_input      |-> [kind |-> "Number", minimum |-> 40,  maximum |-> 120, value |-> 82],
    heart_rate_input        |-> [kind |-> "Number", minimum |-> 40,  maximum |-> 150, value |-> 72],
    fasting_glucose_input   |-> [kind |-> "Number", minimum |-> 50,  maximum |-> 300, value |-> 97],
    hba1c_input             |-> [kind |-> "Number", minimum |-> 30,  maximum |-> 150, value |-> 57],
    total_cholesterol_input |-> [kind |-> "Number", minimum |-> 100, maximum |-> 400, value |-> 201],
    ldl_cholesterol_input   |-> [kind |-> "Number", minimum |-> 50,  maximum |-> 300, value |-> 120],
    hdl_cholesterol_input   |-> [kind |-> "Number", minimum |-> 20,  maximum |-> 100, value |-> 54] ]

ComponentNames == DOMAIN Components

\* The patient attribute each component collects (its variable is named
\* <attribute>_input and its label names the same attribute).
Collects ==
  [ age_input |-> "age", gender_input |-> "gender", height_input |-> "height",
    weight_input |-> "weight", smoking_input |-> "smoking", alcohol_input |-> "alcohol",
    exercise_input |-> "exercise", diet_input |-> "diet",
    diabetes_history_input |-> "diabetes_history",
    depression_history_input |-> "depression_history",
    family_diabetes_input |-> "family_diabetes",
    family_hypertension_input |-> "family_hypertension",
    family_cancer_input |-> "family_cancer", systolic_bp_input |-> "systolic_bp",
    diastolic_bp_input |-> "diastolic_bp", heart_rate_input |-> "heart_rate",
    fasting_glucose_input |-> "fasting_glucose", hba1c_input |-> "hba1c",
    total_cholesterol_input |-> "total_cholesterol",
    ldl_cholesterol_input |-> "ldl_cholesterol",
    hdl_cholesterol_input |-> "hdl_cholesterol" ]

\* The values a component hands to the handler: a Slider or Number a value
\* between its minimum and its maximum (the ends and the initial value are
\* the cases kept), a Number also None when its field is empty, a Radio one
\* of its choices, a Checkbox a boolean.
ComponentValues(c) ==
  LET k == Components[c].kind
      within == {Components[c].minimum, Components[c].value, Components[c].maximum}
  IN  IF k = "Slider" THEN within
      ELSE IF k = "Number" THEN within \cup {NoneNumber}
      ELSE IF k = "Radio" THEN Range(Components[c].choices)
      ELSE BOOLEAN

\* The form as first shown: every component at its value= argument.
InitialForm == [c \in ComponentNames |-> Components[c].value]

\* The forms that differ from the initial one in at most k of the components cs.
RECURSIVE FormsChanging(_, _)
FormsChanging(cs, k) ==
  IF k = 0 THEN {InitialForm}
  ELSE LET prev == FormsChanging(cs, k - 1) IN
       prev \cup UNION { UNION { {[f EXCEPT ![c] = v] : v \in ComponentValues(c)}
                                 : c \in cs } : f \in prev }

\* The submitted forms of the sequential specification ...
Forms == FormsChanging(ComponentNames, MaxChanged)
\* ... and of the one with overlapping requests.
OverlapForms == FormsChanging({"height_input"}, MaxChanged)

\* ------------------------------------------------------- the click binding
\* The parameters of assess_patient_risk, in order.
Params ==
  << "age", "gender", "height", "weight", "smoking", "alcohol", "exercise", "diet",
     "diabetes_history", "depression_history", "family_diabetes",
     "family_hypertension", "family_cancer", "systolic_bp", "diastolic_bp",
     "heart_rate", "fasting_glucose", "hba1c", "total_cholesterol",
     "ldl_cholesterol", "hdl_cholesterol" >>

ParamNames == Range(Params)

\* A plausible slip: systolic and diastolic listed in the other order.
ClickInputsSwapped ==
  << "age_input", "gender_input", "height_input", "weight_input", "smoking_input",
     "alcohol_input", "exercise_input", "diet_input", "diabetes_history_input",
     "depression_history_input", "family_diabetes_input",
     "family_hypertension_input", "family_cancer_input", "diastolic_bp_input",
     "systolic_bp_input", "heart_rate_input", "fasting_glucose_input",
     "hba1c_input", "total_cholesterol_input", "ldl_cholesterol_input",
     "hdl_cholesterol_input" >>

\* The inputs= list of submit_button.click, in order.
ClickInputs ==
  << "age_input", "gender_input", "height_input", "weight_input", "smoking_input",
     "alcohol_input", "exercise_input", "diet_input", "diabetes_history_input",
     "depression_history_input", "family_diabetes_input",
     "family_hypertension_input", "family_cancer_input", "systolic_bp_input",
     "diastolic_bp_input", "heart_rate_input", "fasting_glucose_input",
     "hba1c_input", "total_cholesterol_input", "ldl_cholesterol_input",
     "hdl_cholesterol_input" >>

\* The position of parameter p in the signature.
ParamIndex(p) == CHOOSE i \in 1..Len(Params) : Params[i] = p

\* A click: the values of the listed components, in the order of the list,
\* become the positional arguments of fn.
Dispatch(form) ==
  LET vals == [i \in 1..Len(ClickInputs) |-> form[ClickInputs[i]]]
  IN  [p \in ParamNames |-> vals[ParamIndex(p)]]

\* Calls of assess_patient_risk that do not come from the form: the initial
\* values, with any height and weight (zero, negative, None and huge ones
\* included).
DirectHeights == {-165, 0, 160, 165, NoneNumber, HugeNumber}
DirectWeights == {-70, 0, 64, 70, NoneNumber, HugeNumber}
DirectArgs ==
  { [Dispatch(InitialForm) EXCEPT !.height = h, !.weight = w]
      : h \in DirectHeights, w \in DirectWeights }

\* ------------------------------------------------- float arithmetic of line 65
\* Python floats are IEEE-754 doubles.  A positive double is m * 2^e with
\* 2^52 <= m < 2^53; m and the wider integers met on the way are sequences of
\* limbs, least significant first, in base 2^14.
Base == 2^14

Abs(n) == IF n < 0 THEN -n ELSE n

Limb(a, i) == IF i \in 1..Len(a) THEN a[i] ELSE 0

\* The limbs of xs from position i on, with the carry c brought in.
RECURSIVE CarryFrom(_, _, _)
CarryFrom(xs, i, c) ==
  IF i > Len(xs) /\ c = 0 THEN <<>>
  ELSE LET t == Limb(xs, i) + c
       IN  <<t % Base>> \o CarryFrom(xs, i + 1, t \div Base)

BigOfInt(n) == CarryFrom(<<>>, 1, n)

RECURSIVE BitLenInt(_)
BitLenInt(n) == IF n = 0 THEN 0 ELSE 1 + BitLenInt(n \div 2)

RECURSIVE TopLimb(_, _)
TopLimb(a, i) == IF i = 0 \/ a[i] # 0 THEN i ELSE TopLimb(a, i - 1)

BitLen(a) ==
  LET t == TopLimb(a, Len(a))
  IN  IF t = 0 THEN 0 ELSE 14 * (t - 1) + BitLenInt(a[t])

IsZero(a) == \A i \in 1..Len(a) : a[i] = 0

RECURSIVE ConvSum(_, _, _, _)
ConvSum(a, b, k, i) ==
  IF i > Len(a) THEN 0
  ELSE a[i] * Limb(b, k + 1 - i) + ConvSum(a, b, k, i + 1)

\* a * b, for a and b of at most four limbs.
Mul(a, b) ==
  CarryFrom([k \in 1..(Len(a) + Len(b) - 1) |-> ConvSum(a, b, k, 1)], 1, 0)

\* a * 2^s
ShiftLeft(a, s) ==
  LET limbs == s \div 14
      bits  == s % 14
  IN  CarryFrom([i \in 1..(Len(a) + limbs) |->
                   IF i <= limbs THEN 0 ELSE a[i - limbs] * 2^bits], 1, 0)

\* a \div 2^s
ShiftRight(a, s) ==
  LET limbs == s \div 14
      bits  == s % 14
  IN  [i \in 1..Len(a) |->
         (Limb(a, i + limbs) \div 2^bits)
           + (Limb(a, i + limbs + 1) % 2^bits) * 2^(14 - bits)]

RECURSIVE IntOfBig(_, _)
IntOfBig(a, i) == IF i > Len(a) THEN 0 ELSE a[i] + Base * IntOfBig(a, i + 1)

RECURSIVE GeqFrom(_, _, _)
GeqFrom(a, b, i) ==
  IF i = 0 THEN TRUE
  ELSE IF Limb(a, i) > Limb(b, i) THEN TRUE
  ELSE IF Limb(a, i) < Limb(b, i) THEN FALSE
  ELSE GeqFrom(a, b, i - 1)

Geq(a, b) == GeqFrom(a, b, IF Len(a) > Len(b) THEN Len(a) ELSE Len(b))

RECURSIVE SubFrom(_, _, _, _)
SubFrom(a, b, i, borrow) ==
  IF i > Len(a) THEN <<>>
  ELSE LET t == a[i] - Limb(b, i) - borrow
       IN  <<IF t < 0 THEN t + Base ELSE t>>
             \o SubFrom(a, b, i + 1, IF t < 0 THEN 1 ELSE 0)

\* a - b, for a >= b.
Sub(a, b) == SubFrom(a, b, 1, 0)

\* The one element of a singleton set.
The(s) == CHOOSE x \in s : TRUE

\* One step of the long division: the next quotient bit, and the remainder doubled.
DivStep(r, d) ==
  LET ge == Geq(r, d)
  IN  [q |-> <<IF ge THEN 1 ELSE 0>>, r |-> ShiftLeft(IF ge THEN Sub(r, d) ELSE r, 1)]

\* The first n bits of r / d (one before the binary point when r < 2d), most
\* significant first, and what is left of r.
RECURSIVE DivBits(_, _, _)
DivBits(r, d, n) ==
  IF n = 1 THEN DivStep(r, d)
  ELSE The({ The({ [q |-> first.q \o rest.q, r |-> rest.r]
                     : rest \in {DivBits(first.r, d, n - (n \div 2))} })
               : first \in {DivBits(r, d, n \div 2)} })

RECURSIVE LimbOfBits(_, _, _)
LimbOfBits(bits, j, t) ==
  IF t = 14 THEN 0
  ELSE LET p == 14 * (j - 1) + t
       IN  (IF p < Len(bits) THEN bits[Len(bits) - p] * 2^t ELSE 0)
             + LimbOfBits(bits, j, t + 1)

\* The integer written by the 53 bits, as four limbs.
BigOfBits(bits) ==
  <<LimbOfBits(bits, 1, 0), LimbOfBits(bits, 2, 0),
    LimbOfBits(bits, 3, 0), LimbOfBits(bits, 4, 0)>>

\* The 55 quotient bits q of a division whose remainder is or is not zero,
\* rounded to 53 bits, ties to even: [m, e] for m * 2^(e + de).
RoundBits(q, exact, de) ==
  LET top    == q[1] = 1
      bits54 == IF top THEN SubSeq(q, 1, 54) ELSE SubSeq(q, 2, 55)
      sticky == ~exact \/ (top /\ q[55] = 1)
      up     == bits54[54] = 1 /\ (sticky \/ bits54[53] = 1)
      carry  == up /\ \A i \in 1..53 : bits54[i] = 1
  IN  [ m |-> IF carry THEN BigOfBits(<<1>> \o [i \in 1..52 |-> 0])
              ELSE The({ IF up THEN SubSeq(CarryFrom(m0, 1, 1), 1, 4) ELSE m0
                           : m0 \in {BigOfBits(SubSeq(bits54, 1, 53))} }),
        e |-> de - 53 + (IF top THEN 1 ELSE 0) + (IF carry THEN 1 ELSE 0) ]

\* The doubles that enclose the integer n >= 2^52: its leading 53 bits, and
\* the next double up when the bits below them are not all zero; each [m, e]
\* for m * 2^e.
FaithfulInt(n) ==
  LET s == BitLen(n) - 53
  IN  The({ {[m |-> m0, e |-> s]}
              \cup (IF IsZero(Sub(n, ShiftLeft(m0, s))) THEN {}
                    ELSE IF m0 = <<Base - 1, Base - 1, Base - 1, 2^11 - 1>>
                      THEN {[m |-> <<0, 0, 0, 2^10>>, e |-> s + 1]}
                      ELSE {[m |-> SubSeq(CarryFrom(m0, 1, 1), 1, 4), e |-> s]})
              : m0 \in {SubSeq(ShiftRight(n, s), 1, 4)} })

\* n / d rounded to the nearest double, ties to even: [m, e] for m * 2^e.
RoundDiv(n, d) ==
  LET bn  == BitLen(n)
      bd  == BitLen(d)
      len == IF bn > bd THEN bn ELSE bd
  IN  The({ RoundBits(dv.q, IsZero(dv.r), bn - bd)
              : dv \in {DivBits(ShiftLeft(n, len - bn), ShiftLeft(d, len - bd), 55)} })

FloatZero == [sign |-> 0, m |-> <<0, 0, 0, 0>>, e |-> 0]

\* weight / f, for a float f that is not zero.
FloatDiv(weight, f) ==
  IF weight = 0 THEN FloatZero
  ELSE The({ [sign |-> IF weight < 0 THEN -f.sign ELSE f.sign, m |-> q.m, e |-> q.e - f.e]
               : q \in {RoundDiv(BigOfInt(Abs(weight)), f.m)} })

\* height/100, rounded.
HeightOver100(height) ==
  The({ [sign |-> IF height < 0 THEN -1 ELSE 1, m |-> a.m, e |-> a.e]
          : a \in {RoundDiv(BigOfInt(Abs(height)), BigOfInt(100))} })

\* f ** 2 for a float f that is not zero: the values pow(f, 2.0) may have.
FloatSquare(f) ==
  { [sign |-> 1, m |-> s.m, e |-> s.e + 2 * f.e] : s \in FaithfulInt(Mul(f.m, f.m)) }

\* (height/100)**2: the values it may have.
HeightSquared(height) ==
  IF height = 0 THEN {FloatZero}
  ELSE The({ FloatSquare(a) : a \in {HeightOver100(height)} })

\* ------------------------------------------------------ the patient record
\* An expression whose evaluation raises exc.
Raises(exc) == [exc |-> exc]
DoesRaise(v) == "exc" \in DOMAIN v

\* A plausible slip: the height not squared.
BmiNotSquared(weight, height) ==
  IF IsNone(height) THEN {Raises("TypeError")}
  ELSE IF IsHuge(height) THEN {Raises("OverflowError")}
  ELSE IF IsNone(weight) THEN {Raises("TypeError")}
  ELSE IF IsHuge(weight) THEN {Raises("OverflowError")}
  ELSE IF height = 0 THEN {Raises("ZeroDivisionError")}
  ELSE { FloatDiv(weight, a) : a \in {HeightOver100(height)} }

\* weight / ((height/100)**2): the right operand is evaluated first (None/100
\* is a TypeError, a huge int / 100 an OverflowError), then the division
\* converts weight (TypeError for None, OverflowError for a huge int) and
\* raises ZeroDivisionError for the divisor 0.0.  The outcomes it may have:
\* one for each value of the square.
BmiOf(weight, height) ==
  IF IsNone(height) THEN {Raises("TypeError")}
  ELSE IF IsHuge(height) THEN {Raises("OverflowError")}
  ELSE IF IsNone(weight) THEN {Raises("TypeError")}
  ELSE IF IsHuge(weight) THEN {Raises("OverflowError")}
  ELSE { IF sq.sign = 0 THEN Raises("ZeroDivisionError") ELSE FloatDiv(weight, sq)
           : sq \in HeightSquared(height) }

\* The float f in hundredths, rounded toward zero (for |f| < 2^24).
Hundredths(f) ==
  f.sign * IntOfBig(ShiftRight(Mul(f.m, BigOfInt(100)), -f.e), 1)

\* A plausible slip: the two blood pressures stored under each other's key.
PatientDataSwapped(a) ==
  { [ age |-> a.age, gender |-> a.gender, height |-> a.height, weight |-> a.weight,
      bmi |-> bmi,
      smoking |-> a.smoking, alcohol |-> a.alcohol, exercise |-> a.exercise,
      diet |-> a.diet, diabetes_history |-> a.diabetes_history,
      depression_history |-> a.depression_history,
      family_diabetes |-> a.family_diabetes,
      family_hypertension |-> a.family_hypertension,
      family_cancer |-> a.family_cancer,
      systolic_bp |-> a.diastolic_bp, diastolic_bp |-> a.systolic_bp,
      heart_rate |-> a.heart_rate, fasting_glucose |-> a.fasting_glucose,
      hba1c |-> a.hba1c, total_cholesterol |-> a.total_cholesterol,
      ldl_cholesterol |-> a.ldl_cholesterol, hdl_cholesterol |-> a.hdl_cholesterol ]
    : bmi \in BmiOf(a.weight, a.height) }

\* The dict literal patient_data = {...} built from the arguments a: the
\* dicts it may evaluate to, one for each outcome of its bmi entry; it raises
\* what the evaluation of that entry raises.
PatientData(a) ==
  { [ age |-> a.age,
      gender |-> a.gender,
      height |-> a.height,
      weight |-> a.weight,
      bmi |-> bmi,
      smoking |-> a.smoking,
      alcohol |-> a.alcohol,
      exercise |-> a.exercise,
      diet |-> a.diet,
      diabetes_history |-> a.diabetes_history,
      depression_history |-> a.depression_history,
      family_diabetes |-> a.family_diabetes,
      family_hypertension |-> a.family_hypertension,
      family_cancer |-> a.family_cancer,
      systolic_bp |-> a.systolic_bp,
      diastolic_bp |-> a.diastolic_bp,
      heart_rate |-> a.heart_rate,
      fasting_glucose |-> a.fasting_glucose,
      hba1c |-> a.hba1c,
      total_cholesterol |-> a.total_cholesterol,
      ldl_cholesterol |-> a.ldl_cholesterol,
      hdl_cholesterol |-> a.hdl_cholesterol ]
    : bmi \in BmiOf(a.weight, a.height) }

\* A plausible slip: patient_data kept in one module-level variable.
SharedFrame(r) == 1

\* patient_data is a local of the call: each request has its own.
FrameOf(r) == r

\* ----------------------------------------------------------- the rendering
\* Strings that are taken apart are sequences of one-character strings.
LowerCase ==
  << "a", "b", "c", "d", "e", "f", "g", "h", "i", "j", "k", "l", "m",
     "n", "o", "p", "q", "r", "s", "t", "u", "v", "w", "x", "y", "z" >>
UpperCase ==
  << "A", "B", "C", "D", "E", "F", "G", "H", "I", "J", "K", "L", "M",
     "N", "O", "P", "Q", "R", "S", "T", "U", "V", "W", "X", "Y", "Z" >>

IsLower(ch) == ch \in Range(LowerCase)
IsUpper(ch) == ch \in Range(UpperCase)
IsCased(ch) == IsLower(ch) \/ IsUpper(ch)
ToUpper(ch) ==
  IF IsLower(ch) THEN UpperCase[CHOOSE i \in 1..26 : LowerCase[i] = ch] ELSE ch
ToLower(ch) ==
  IF IsUpper(ch) THEN LowerCase[CHOOSE i \in 1..26 : UpperCase[i] = ch] ELSE ch

\* str.replace(old, new) for one-character old and new.
StrReplace(s, old, new) ==
  [i \in 1..Len(s) |-> IF s[i] = old THEN new ELSE s[i]]

\* A plausible slip: str.capitalize() in place of str.title().
StrCapitalize(s) ==
  [i \in 1..Len(s) |-> IF i = 1 THEN ToUpper(s[i]) ELSE ToLower(s[i])]

\* str.title(): a cased character is upper-cased when the character before
\* it is not cased (or there is none) and lower-cased otherwise.
StrTitle(s) ==
  [i \in 1..Len(s) |->
     IF IsCased(s[i])
       THEN IF i > 1 /\ IsCased(s[i - 1]) THEN ToLower(s[i]) ELSE ToUpper(s[i])
       ELSE s[i]]

\* sep.join(xs), as the sequence of the pieces it concatenates.
StrJoin(sep, xs) ==
  IF Len(xs) = 0 THEN <<>>
  ELSE [i \in 1..(2 * Len(xs) - 1) |-> IF i % 2 = 1 THEN xs[(i + 1) \div 2] ELSE sep]

\* format(x, '.1f') of x = q/4 >= 0: the nearest tenth, a tie (q odd) going
\* to the even tenth; the text is whole "." tenth.
Format1f(q) ==
  LET n == (5 * q) \div 2
      t == IF q % 2 = 0 THEN n ELSE IF n % 2 = 0 THEN n ELSE n + 1
  IN  [whole |-> t \div 10, tenth |-> t % 10]

\* A piece of literal text of the output.
Text(s) == [kind |-> "text", text |-> s]

\* The line the loop body appends for one item of risk_results.
BulletLine(condition, result) ==
  [ kind |-> "bullet",
    title |-> StrTitle(StrReplace(condition, "_", " ")),
    percent |-> Format1f(result.risk_percentage),
    key_factors |-> StrJoin(", ", result.key_factors) ]

ResultsHeader == Text("## Risk Assessment Results\n\n")
InsightsHeader == Text("\n## AI-Powered Clinical Insights\n\n")

\* -------------------------------------------------------- the collaborators
\* The engine's conditions, in its fixed order (type_2_diabetes,
\* hypertension, cardiovascular_disease): not the alphabetical one.
ConditionOrder ==
  << << "t", "y", "p", "e", "_", "2", "_", "d", "i", "a", "b", "e", "t", "e", "s" >>,
     << "h", "y", "p", "e", "r", "t", "e", "n", "s", "i", "o", "n" >>,
     << "c", "a", "r", "d", "i", "o", "v", "a", "s", "c", "u", "l", "a", "r", "_",
        "d", "i", "s", "e", "a", "s", "e" >> >>

\* Risk percentages in quarters of a percent (32.75, 100, 0, 12.25, 77.5):
\* within [0, 100], some of them ties of the one-decimal format.
RiskLevels == <<131, 400, 0, 49, 310>>

\* Key-factor lists an engine may give (one of them empty).
FactorLists ==
  << <<"Age", "BMI">>, <<"Fasting Glucose", "HbA1c", "BMI">>, <<>>, <<"Family History">> >>

\* An AssessmentReport: one RiskResult per condition, in ConditionOrder.  A
\* dict is the sequence of its items in insertion order.
EngineReport(v) ==
  [i \in 1..Len(ConditionOrder) |->
     [ condition |-> ConditionOrder[i],
       risk_percentage |-> RiskLevels[((i + v) % Len(RiskLevels)) + 1],
       key_factors |-> FactorLists[((i + v) % Len(FactorLists)) + 1] ]]

EngineReports == {EngineReport(v) : v \in 1..MaxReportVariants}

\* The failures of calculate_all_risks and of get_risk_insights.
EngineErrors == {"ValidationError", "ScoringError"}
InsightsErrors == {"APIError"}

\* The commentary get_risk_insights may answer with.
InsightTexts == {"Maintain current lifestyle.", "Discuss glucose control."}

\* risk_results before calculate_all_risks has returned.
NoReport == <<>>

\* ------------------------------------------------------------ the handler
\* A plausible slip: the two collaborator calls written in the other order.
AfterInsightsFirst ==
  [ build |-> "construct", construct |-> "insights", insights |-> "calc",
    calc |-> "header", header |-> "loop", loop |-> "footer", footer |-> "return",
    return |-> "done" ]

\* The statements of assess_patient_risk, each with the one that follows it.
After ==
  [ build |-> "construct", construct |-> "calc", calc |-> "insights",
    insights |-> "header", header |-> "loop", loop |-> "footer", footer |-> "return",
    return |-> "done" ]

\* A plausible slip: the failure caught and an output returned in its place.
Swallow(exc) == [raised |-> "", returned |-> <<Text("Risk assessment unavailable")>>]

\* The handler has no try/except: an exception raised inside it leaves it
\* as raised, and the caller gets no value.
Propagate(exc) == [raised |-> exc, returned |-> <<>>]

VARIABLES
  pc,                \* pc[r]: the statement request r executes next
  via,               \* via[r]: "form" for a click, "direct" for a plain call
  form,              \* form[r]: the component values sent with the click
  args,              \* args[r]: the arguments of the call, by parameter name
  patient_data,      \* patient_data[f]: the record held in frame f
  risk_results,      \* risk_results[r]
  ai_insights,       \* ai_insights[r]
  formatted_output,  \* formatted_output[r]: the pieces appended so far
  it,                \* it[r]: the position of the for loop in risk_results
  returned,          \* returned[r]: what the caller got (<<>>: nothing)
  raised,            \* raised[r]: the exception the caller got ("": none)
  calls              \* calls[r]: the collaborator calls made, with arguments and outcome

vars == << pc, via, form, args, patient_data, risk_results, ai_insights,
           formatted_output, it, returned, raised, calls >>

Init ==
  /\ pc = [r \in Requests |-> "idle"]
  /\ via = [r \in Requests |-> "none"]
  /\ form = [r \in Requests |-> None]
  /\ args = [r \in Requests |-> None]
  /\ patient_data = [f \in Requests |-> None]
  /\ risk_results = [r \in Requests |-> NoReport]
  /\ ai_insights = [r \in Requests |-> ""]
  /\ formatted_output = [r \in Requests |-> <<>>]
  /\ it = [r \in Requests |-> 0]
  /\ returned = [r \in Requests |-> <<>>]
  /\ raised = [r \in Requests |-> ""]
  /\ calls = [r \in Requests |-> <<>>]

AllIdle == \A r \in Requests : pc[r] = "idle"

\* submit_button.click: the form f is sent and fn is called with its values.
Click(r, f) ==
  /\ pc[r] = "idle"
  /\ pc' = [pc EXCEPT ![r] = "build"]
  /\ via' = [via EXCEPT ![r] = "form"]
  /\ form' = [form EXCEPT ![r] = f]
  /\ args' = [args EXCEPT ![r] = Dispatch(f)]
  /\ UNCHANGED << patient_data, risk_results, ai_insights, formatted_output, it,
                  returned, raised, calls >>

\* assess_patient_risk called with the arguments a, not through the form.
DirectCall(r, a) ==
  /\ pc[r] = "idle"
  /\ pc' = [pc EXCEPT ![r] = "build"]
  /\ via' = [via EXCEPT ![r] = "direct"]
  /\ args' = [args EXCEPT ![r] = a]
  /\ UNCHANGED << form, patient_data, risk_results, ai_insights, formatted_output,
                  it, returned, raised, calls >>

\* An exception leaves the handler.
Raise(r, exc) ==
  /\ pc' = [pc EXCEPT ![r] = "done"]
  /\ raised' = [raised EXCEPT ![r] = Propagate(exc).raised]
  /\ returned' = [returned EXCEPT ![r] = Propagate(exc).returned]

\* patient_data = {...}: the name is bound unless the bmi entry raises.
BuildPatientData(r) ==
  /\ pc[r] = "build"
  /\ \E pd \in PatientData(args[r]) :
       IF DoesRaise(pd.bmi)
         THEN /\ Raise(r, pd.bmi.exc)
              /\ UNCHANGED patient_data
         ELSE /\ patient_data' = [patient_data EXCEPT ![FrameOf(r)] = pd]
              /\ pc' = [pc EXCEPT ![r] = After["build"]]
              /\ UNCHANGED << returned, raised >>
  /\ UNCHANGED << via, form, args, risk_results, ai_insights, formatted_output, it, calls >>

\* risk_calculator = RiskCalculator(); claude_integration = ClaudeIntegration(...)
Construct(r) ==
  /\ pc[r] = "construct"
  /\ pc' = [pc EXCEPT ![r] = After["construct"]]
  /\ UNCHANGED << via, form, args, patient_data, risk_results, ai_insights,
                  formatted_output, it, returned, raised, calls >>

\* risk_results = risk_calculator.calculate_all_risks(patient_data):
\* the engine answers with a report or fails.
CalculateAllRisks(r) ==
  /\ pc[r] = "calc"
  /\ \/ \E rep \in EngineReports :
          /\ risk_results' = [risk_results EXCEPT ![r] = rep]
          /\ calls' = [calls EXCEPT ![r] =
               Append(@, [ fn |-> "calculate_all_risks",
                           patient_data |-> patient_data[FrameOf(r)],
                           outcome |-> "returned", report |-> rep, exc |-> "" ])]
          /\ pc' = [pc EXCEPT ![r] = After["calc"]]
          /\ UNCHANGED << returned, raised >>
     \/ \E exc \in EngineErrors :
          /\ calls' = [calls EXCEPT ![r] =
               Append(@, [ fn |-> "calculate_all_risks",
                           patient_data |-> patient_data[FrameOf(r)],
                           outcome |-> "raised", report |-> NoReport, exc |-> exc ])]
          /\ Raise(r, exc)
          /\ UNCHANGED risk_results
  /\ UNCHANGED << via, form, args, patient_data, ai_insights, formatted_output, it >>

\* ai_insights = claude_integration.get_risk_insights(patient_data, risk_results)
GetRiskInsights(r) ==
  /\ pc[r] = "insights"
  /\ \/ \E txt \in InsightTexts :
          /\ ai_insights' = [ai_insights EXCEPT ![r] = txt]
          /\ calls' = [calls EXCEPT ![r] =
               Append(@, [ fn |-> "get_risk_insights",
                           patient_data |-> patient_data[FrameOf(r)],
                           risk_results |-> risk_results[r],
                           outcome |-> "returned", text |-> txt, exc |-> "" ])]
          /\ pc' = [pc EXCEPT ![r] = After["insights"]]
          /\ UNCHANGED << returned, raised >>
     \/ \E exc \in InsightsErrors :
          /\ calls' = [calls EXCEPT ![r] =
               Append(@, [ fn |-> "get_risk_insights",
                           patient_data |-> patient_data[FrameOf(r)],
                           risk_results |-> risk_results[r],
                           outcome |-> "raised", text |-> "", exc |-> exc ])]
          /\ Raise(r, exc)
          /\ UNCHANGED ai_insights
  /\ UNCHANGED << via, form, args, patient_data, risk_results, formatted_output, it >>

\* The for statement goes on with the item at position i, or is exhausted.
LoopOrOn(r, i) == IF i <= Len(risk_results[r]) THEN "loop" ELSE After["loop"]

\* formatted_output = "## Risk Assessment Results\n\n", and the loop is entered.
FormatHeader(r) ==
  /\ pc[r] = "header"
  /\ formatted_output' = [formatted_output EXCEPT ![r] = <<ResultsHeader>>]
  /\ it' = [it EXCEPT ![r] = 1]
  /\ pc' = [pc EXCEPT ![r] = IF After["header"] = "loop" THEN LoopOrOn(r, 1)
                             ELSE After["header"]]
  /\ UNCHANGED << via, form, args, patient_data, risk_results, ai_insights,
                  returned, raised, calls >>

\* One iteration of  for condition, result in risk_results.items().
FormatBullet(r) ==
  /\ pc[r] = "loop"
  /\ it[r] <= Len(risk_results[r])
  /\ LET item == risk_results[r][it[r]] IN
     formatted_output' = [formatted_output EXCEPT ![r] =
                            Append(@, BulletLine(item.condition, item))]
  /\ it' = [it EXCEPT ![r] = @ + 1]
  /\ pc' = [pc EXCEPT ![r] = LoopOrOn(r, it[r] + 1)]
  /\ UNCHANGED << via, form, args, patient_data, risk_results, ai_insights,
                  returned, raised, calls >>

\* formatted_output += "\n## AI-Powered Clinical Insights\n\n"; += ai_insights
FormatInsights(r) ==
  /\ pc[r] = "footer"
  /\ formatted_output' = [formatted_output EXCEPT ![r] =
                            @ \o <<InsightsHeader, Text(ai_insights[r])>>]
  /\ pc' = [pc EXCEPT ![r] = After["footer"]]
  /\ UNCHANGED << via, form, args, patient_data, risk_results, ai_insights, it,
                  returned, raised, calls >>

\* return formatted_output
Return(r) ==
  /\ pc[r] = "return"
  /\ returned' = [returned EXCEPT ![r] = formatted_output[r]]
  /\ pc' = [pc EXCEPT ![r] = After["return"]]
  /\ UNCHANGED << via, form, args, patient_data, risk_results, ai_insights,
                  formatted_output, it, raised, calls >>

\* The call is over: its frame is discarded and the worker is free again.
Finish(r) ==
  /\ pc[r] = "done"
  /\ pc' = [pc EXCEPT ![r] = "idle"]
  /\ via' = [via EXCEPT ![r] = "none"]
  /\ form' = [form EXCEPT ![r] = None]
  /\ args' = [args EXCEPT ![r] = None]
  /\ patient_data' = [patient_data EXCEPT ![FrameOf(r)] = None]
  /\ risk_results' = [risk_results EXCEPT ![r] = NoReport]
  /\ ai_insights' = [ai_insights EXCEPT ![r] = ""]
  /\ formatted_output' = [formatted_output EXCEPT ![r] = <<>>]
  /\ it' = [it EXCEPT ![r] = 0]
  /\ returned' = [returned EXCEPT ![r] = <<>>]
  /\ raised' = [raised EXCEPT ![r] = ""]
  /\ calls' = [calls EXCEPT ![r] = <<>>]

\* The statements of a call in progress.
Step(r) ==
  \/ BuildPatientData(r)
  \/ Construct(r)
  \/ CalculateAllRisks(r)
  \/ GetRiskInsights(r)
  \/ FormatHeader(r)
  \/ FormatBullet(r)
  \/ FormatInsights(r)
  \/ Return(r)
  \/ Finish(r)

\* The worker that takes a request when all are idle (they are alike).
FirstWorker == CHOOSE r \in Requests : \A q \in Requests : r <= q

\* One request at a time, from the form or by a plain call.
Next ==
  \/ AllIdle /\ \E f \in Forms : Click(FirstWorker, f)
  \/ AllIdle /\ \E a \in DirectArgs : DirectCall(FirstWorker, a)
  \/ \E r \in Requests : Step(r)

Spec == Init /\ [][Next]_vars

\* Requests from the form that overlap: a click is taken whenever a worker is idle.
NextOverlap ==
  \/ \E r \in Requests : \E f \in OverlapForms : Click(r, f)
  \/ \E r \in Requests : Step(r)

SpecOverlap == Init /\ [][NextOverlap]_vars

\* ------------------------------------------------------------- properties
\* The build statement of request r has been executed.
Built(r) == pc[r] \notin {"idle", "build"}

\* What the evaluation of the dict literal can raise.
BuildErrors == {"TypeError", "OverflowError", "ZeroDivisionError"}

\* The build statement of request r has been executed and bound patient_data.
RecordBuilt(r) == Built(r) /\ raised[r] \notin BuildErrors

\* v is a number (not None) that a float can hold.
IsNumber(v) == ~IsNone(v) /\ ~IsHuge(v)

\* The float bmi is weight / (height/100)^2 of the integers weight and height:
\* it has the sign of weight and, in hundredths rounded toward zero, is at
\* most one hundredth from the exact quotient.
IsBmiOf(bmi, weight, height) ==
  /\ ~DoesRaise(bmi)
  /\ bmi.sign = (IF weight > 0 THEN 1 ELSE IF weight < 0 THEN -1 ELSE 0)
  /\ bmi.sign * Hundredths(bmi) - (Abs(weight) * 1000000) \div (height * height)
       \in -1..1

\* C1: a request whose height or weight is not positive fails with a
\* ValidationError when its record is built, before any call of
\* calculate_all_risks.  The code does not do this.
C1_NonPositiveRejected ==
  \A r \in Requests :
    ( /\ Built(r)
      /\ IsNumber(args[r].height) /\ IsNumber(args[r].weight)
      /\ (args[r].height <= 0 \/ args[r].weight <= 0) )
      => (raised[r] = "ValidationError" /\ calls[r] = <<>>)

\* C2: in every record handed to calculate_all_risks, bmi is the float
\* weight / (height/100)^2 of that record's own height and weight (within the
\* rounding of the float arithmetic), and bmi is no parameter of the handler.
C2_BmiDerived ==
  /\ "bmi" \notin ParamNames
  /\ \A r \in Requests : \A i \in DOMAIN calls[r] :
       calls[r][i].fn = "calculate_all_risks" =>
         LET pd == calls[r][i].patient_data IN
           /\ IsNumber(pd.height) /\ IsNumber(pd.weight) /\ pd.height # 0
           /\ IsBmiOf(pd.bmi, pd.weight, pd.height)

\* C2 witness: the engine was called for a height of 160 cm and 64 kg, whose
\* bmi is the float 24.999999999999996 (2499 hundredths), not 25.
C2_Witness ==
  \E r \in Requests :
    /\ Len(calls[r]) >= 1
    /\ calls[r][1].fn = "calculate_all_risks"
    /\ calls[r][1].patient_data.height = 160
    /\ calls[r][1].patient_data.weight = 64
    /\ Hundredths(calls[r][1].patient_data.bmi) = 2499

\* C3: apart from bmi the record holds exactly the 21 arguments, each under
\* the key of its parameter's name and with the value passed.
C3_PassThrough ==
  /\ Cardinality(ParamNames) = 21
  /\ \A r \in Requests :
       RecordBuilt(r) =>
         LET pd == patient_data[FrameOf(r)] IN
           /\ DOMAIN pd = ParamNames \cup {"bmi"}
           /\ \A p \in ParamNames : pd[p] = args[r][p]
           /\ \A i \in DOMAIN calls[r] : calls[r][i].patient_data = pd

\* C3 witness: a record built from a form in which the systolic pressure was
\* set to 200, handed to the engine.
C3_Witness ==
  \E r \in Requests :
    /\ Len(calls[r]) >= 1
    /\ args[r].systolic_bp = 200
    /\ calls[r][1].patient_data.systolic_bp = 200
    /\ calls[r][1].patient_data.diastolic_bp = 82

\* C4: no partial success.  A finished request either returned an output
\* with one line for every condition of the report and raised nothing, or it
\* raised exactly the failure of its record construction or of its last
\* collaborator call and returned nothing; a failed call is never followed by
\* another statement, and nothing is returned before the request is finished.
C4_NoPartialSuccess ==
  \A r \in Requests :
    /\ pc[r] # "done" => (returned[r] = <<>> /\ raised[r] = "")
    /\ \A i \in DOMAIN calls[r] :
         calls[r][i].outcome = "raised" =>
           (i = Len(calls[r]) /\ pc[r] = "done" /\ raised[r] = calls[r][i].exc)
    /\ pc[r] = "done" =>
         \/ /\ raised[r] = ""
            /\ Len(calls[r]) = 2
            /\ Len(returned[r]) = Len(calls[r][1].report) + 3
            /\ \A i \in 1..Len(calls[r][1].report) : returned[r][i + 1].kind = "bullet"
         \/ /\ raised[r] # ""
            /\ returned[r] = <<>>
            /\ \/ /\ calls[r] = <<>>
                  /\ raised[r] \in BuildErrors
                  /\ patient_data[FrameOf(r)] = None
               \/ /\ calls[r] # <<>>
                  /\ calls[r][Len(calls[r])].outcome = "raised"
                  /\ calls[r][Len(calls[r])].exc = raised[r]

\* C4 witness: get_risk_insights failed after the engine had answered; the
\* caller got that failure and no output.
C4_Witness ==
  \E r \in Requests :
    /\ pc[r] = "done"
    /\ Len(calls[r]) = 2
    /\ calls[r][1].outcome = "returned"
    /\ raised[r] = "APIError"
    /\ returned[r] = <<>>

\* C5: calculate_all_risks is called once, then get_risk_insights once and
\* only after the engine has returned, with the same patient data and the
\* report the engine returned; output exists only after both have returned.
C5_CallOrder ==
  \A r \in Requests :
    /\ Len(calls[r]) <= 2
    /\ Len(calls[r]) >= 1 => calls[r][1].fn = "calculate_all_risks"
    /\ Len(calls[r]) = 2 =>
         /\ calls[r][2].fn = "get_risk_insights"
         /\ calls[r][1].outcome = "returned"
         /\ calls[r][2].patient_data = calls[r][1].patient_data
         /\ calls[r][2].risk_results = calls[r][1].report
    /\ (formatted_output[r] # <<>> \/ returned[r] # <<>>) =>
         (Len(calls[r]) = 2 /\ calls[r][2].outcome = "returned")

\* C5 witness: a request that returned its output after both calls.
C5_Witness ==
  \E r \in Requests :
    /\ pc[r] = "done"
    /\ returned[r] # <<>>
    /\ Len(calls[r]) = 2
    /\ calls[r][2].risk_results = EngineReport(2)

\* C6: the output returned has one bullet line per condition of the report
\* the engine returned, in the report's order; bullet i is titled by
\* condition i with each underscore turned into a space and each word
\* capitalized, shows risk i to the nearest tenth and key factors i in their
\* order, separated by ", "; the insights section follows all the bullets.
C6_Rendering ==
  \A r \in Requests :
    returned[r] # <<>> =>
      LET out == returned[r]
          rep == calls[r][1].report
          n   == Len(rep)
      IN  /\ Len(out) = n + 3
          /\ out[1] = ResultsHeader
          /\ out[n + 2] = InsightsHeader
          /\ out[n + 3] = Text(calls[r][2].text)
          /\ \A i \in 1..n :
               LET b == out[i + 1]
                   c == rep[i].condition
                   k == rep[i].key_factors
               IN  /\ b.kind = "bullet"
                   /\ Len(b.title) = Len(c)
                   /\ \A j \in 1..Len(c) :
                        /\ c[j] = "_" => b.title[j] = " "
                        /\ c[j] # "_" => ToLower(b.title[j]) = ToLower(c[j])
                        /\ (j = 1 \/ b.title[j - 1] = " ") => ~IsLower(b.title[j])
                   /\ 4 * (10 * b.percent.whole + b.percent.tenth)
                        - 10 * rep[i].risk_percentage \in -2..2
                   /\ b.percent.tenth \in 0..9
                   /\ Len(b.key_factors) = IF k = <<>> THEN 0 ELSE 2 * Len(k) - 1
                   /\ \A j \in 1..Len(k) : b.key_factors[2 * j - 1] = k[j]
                   /\ \A j \in 1..(Len(k) - 1) : b.key_factors[2 * j] = ", "

\* C6 witness: an output whose first bullet is "Type 2 Diabetes" and shows
\* 12.25 % as 12.2, and whose third shows 32.75 % as 32.8.
C6_Witness ==
  \E r \in Requests :
    /\ Len(returned[r]) = 6
    /\ returned[r][2].title =
         << "T", "y", "p", "e", " ", "2", " ", "D", "i", "a", "b", "e", "t", "e", "s" >>
    /\ returned[r][2].key_factors = <<"Family History">>
    /\ returned[r][3].key_factors = <<"Age", ", ", "BMI">>
    /\ returned[r][2].percent = [whole |-> 12, tenth |-> 2]
    /\ returned[r][4].percent = [whole |-> 32, tenth |-> 8]

\* C7 as claimed: every enumerated value the form submits is in the documented
\* enumeration, the exercise levels being Sedentary, Light, Moderate, Active
\* and VeryActive.
C7_FormEnumsDocumented ==
  \A r \in Requests :
    via[r] = "form" =>
      /\ args[r].gender \in {"Female", "Male", "Other"}
      /\ args[r].smoking \in {"Never", "Former", "Current"}
      /\ args[r].alcohol \in {"None", "Occasional", "Moderate", "Heavy"}
      /\ args[r].exercise \in {"Sedentary", "Light", "Moderate", "Active", "VeryActive"}

\* C7 as amended: the same, the top exercise level being submitted as the
\* string "Very Active".
C7_FormEnumsAsOffered ==
  \A r \in Requests :
    via[r] = "form" =>
      /\ args[r].gender \in {"Female", "Male", "Other"}
      /\ args[r].smoking \in {"Never", "Former", "Current"}
      /\ args[r].alcohol \in {"None", "Occasional", "Moderate", "Heavy"}
      /\ args[r].exercise \in {"Sedentary", "Light", "Moderate", "Active", "Very Active"}
      /\ RecordBuilt(r) =>
           /\ patient_data[FrameOf(r)].gender = args[r].gender
           /\ patient_data[FrameOf(r)].smoking = args[r].smoking
           /\ patient_data[FrameOf(r)].alcohol = args[r].alcohol
           /\ patient_data[FrameOf(r)].exercise = args[r].exercise

\* C7 witness: the form submitted its top exercise level and the record holds it.
C7_Witness ==
  \E r \in Requests :
    /\ via[r] = "form"
    /\ RecordBuilt(r)
    /\ form[r].exercise_input = "Very Active"
    /\ patient_data[FrameOf(r)].exercise = "Very Active"

\* C8: with requests overlapping in any way, the record every collaborator
\* call of a request receives is the one built from that request's own
\* arguments, and the output of a request is the rendering of the report and
\* the commentary its own calls returned.
C8_NoSharedState ==
  \A r \in Requests :
    /\ \A i \in DOMAIN calls[r] :
         LET pd == calls[r][i].patient_data IN
           /\ DOMAIN pd = ParamNames \cup {"bmi"}
           /\ \A p \in ParamNames : pd[p] = args[r][p]
           /\ IsNumber(args[r].height) /\ IsNumber(args[r].weight)
           /\ IsBmiOf(pd.bmi, args[r].weight, args[r].height)
    /\ returned[r] # <<>> =>
         /\ Len(calls[r]) = 2
         /\ Len(returned[r]) = Len(calls[r][1].report) + 3
         /\ \A i \in 1..Len(calls[r][1].report) :
              returned[r][i + 1] =
                BulletLine(calls[r][1].report[i].condition, calls[r][1].report[i])
         /\ returned[r][Len(returned[r])] = Text(calls[r][2].text)

\* C8 witness: two requests with different heights both past their engine
\* call at the same time, the engine having answered them differently.
C8_Witness ==
  \E r, q \in Requests :
    /\ r # q
    /\ pc[r] # "idle" /\ pc[q] # "idle"
    /\ args[r].height # args[q].height
    /\ Len(calls[r]) = 2 /\ Len(calls[q]) >= 1
    /\ calls[r][1].outcome = "returned" /\ calls[q][1].outcome = "returned"
    /\ calls[r][1].report # calls[q][1].report
    /\ returned[r] # <<>>

\* C9: every numeric value of a request from the form is within the bounds
\* the form declares (HbA1c in tenths), so its height and weight are
\* positive, its record is built and its bmi is positive.  The code does not
\* ensure this: an emptied Number field arrives as None.
C9_FormValuesWithinBounds ==
  \A r \in Requests :
    via[r] = "form" =>
      /\ args[r].age \in 18..100
      /\ args[r].height \in 100..250
      /\ args[r].weight \in 30..200
      /\ args[r].systolic_bp \in 70..200
      /\ args[r].diastolic_bp \in 40..120
      /\ args[r].heart_rate \in 40..150
      /\ args[r].fasting_glucose \in 50..300
      /\ args[r].hba1c \in 30..150
      /\ args[r].total_cholesterol \in 100..400
      /\ args[r].ldl_cholesterol \in 50..300
      /\ args[r].hdl_cholesterol \in 20..100
      /\ raised[r] \notin BuildErrors
      /\ Built(r) =>
           LET pd == patient_data[FrameOf(r)] IN
             /\ pd.height > 0 /\ pd.weight > 0
             /\ pd.bmi.sign = 1
             /\ \A p \in {"age", "height", "weight", "systolic_bp", "diastolic_bp",
                          "heart_rate", "fasting_glucose", "hba1c",
                          "total_cholesterol", "ldl_cholesterol", "hdl_cholesterol"} :
                  pd[p] = args[r][p]

\* C10: the inputs list of the click has 21 components, as many as the
\* handler has parameters, the i-th being the one that collects the i-th
\* parameter; so every argument of a dispatched click is the value of the
\* component collecting that parameter.
C10_ClickBinding ==
  /\ Len(ClickInputs) = 21
  /\ Len(Params) = 21
  /\ \A i \in 1..Len(ClickInputs) : Collects[ClickInputs[i]] = Params[i]
  /\ \A r \in Requests :
       via[r] = "form" =>
         \A c \in ComponentNames : args[r][Collects[c]] = form[r][c]

\* C10 witness: a click dispatched with the diastolic pressure changed and
\* the systolic one left alone.
C10_Witness ==
  \E r \in Requests :
    /\ via[r] = "form"
    /\ form[r].diastolic_bp_input = 40
    /\ form[r].systolic_bp_input = 128
    /\ args[r].diastolic_bp = 40
    /\ args[r].systolic_bp = 128
====
